---- MODULE Spec2Model ----
(***************************************************************************)
(* A model of lab_6_pipeline/pipeline.py: the corpus manager that          *)
(* validates and loads a directory of articles, the CONLL-U token and      *)
(* sentence classes, and the morphological analysis pipelines.             *)
(*                                                                         *)
(* Three specifications share the module.  SpecCorpus constructs a         *)
(* CorpusManager over a directory, SpecSentence calls the methods of a     *)
(* ConlluSentence and of its ConlluToken objects, SpecPipeline runs a      *)
(* pipeline over a loaded corpus.  Each leaves the variables of the other  *)
(* two at their idle values.                                               *)
(***************************************************************************)
EXTENDS Integers, Sequences, FiniteSets, TLC

VARIABLES
    dirKind,       \* what path_to_raw_txt_data names: "missing", "file", "dir"
    files,         \* the entries of the directory
    pc,            \* where CorpusManager.__init__ is
    step,          \* index of the call __init__ makes next
    error,         \* the exception __init__ raised, "none" when none
    storage,       \* CorpusManager._storage: article id -> Article
    toScan,        \* raw files the loop of _scan_dataset has still to visit
    fromRawCalls,  \* how many times from_raw was called
    sentence,      \* a ConlluSentence: _position and _tokens (each token's _text)
    call,          \* the last method call on the sentence or a token, and its result
    corpus,        \* the pipeline's corpus: iteration order and article texts
    run            \* the state of a pipeline's run()

corpusVars == <<dirKind, files, pc, step, error, storage, toScan, fromRawCalls>>
sentenceVars == <<sentence, call>>
pipelineVars == <<corpus, run>>
vars == <<dirKind, files, pc, step, error, storage, toScan, fromRawCalls,
          sentence, call, corpus, run>>

(***************************************************************************)
(* Bounds.                                                                 *)
(***************************************************************************)
\* The largest article id a file name carries.
MaxId == 11
\* Files with an id up to this one are, independently, absent, empty or
\* non-empty; the ids above it come as pairs of non-empty files or not at all.
MaxVariedId == 2

(***************************************************************************)
(* The directory.  A file is <id>_raw.txt or <id>_meta.json and has a      *)
(* size.  The directory's own path holds no underscore, so that the text   *)
(* before the first underscore of str(file) ends with the id.              *)
(***************************************************************************)
Kinds == {"raw", "meta"}

File(i, k, s) == [id |-> i, kind |-> k, size |-> s]

VariedSlots == (1..MaxVariedId) \X Kinds

PairIds == (MaxVariedId + 1)..MaxId

\* The directories of the model.
DirectoryOf(varied, pairs) ==
    {File(sl[1], sl[2], IF varied[sl] = "empty" THEN 0 ELSE 1) :
        sl \in {x \in VariedSlots : varied[x] # "absent"}}
    \cup {File(i, k, 1) : i \in pairs, k \in Kinds}

NoArticles == << >>

Idle == [op |-> "idle"]

(***************************************************************************)
(* CorpusManager                                                           *)
(***************************************************************************)
\* glob('*.json')
MetaFiles(fs) == {f \in fs : f.kind = "meta"}

\* glob('*_raw.txt')
RawFiles(fs) == {f \in fs : f.kind = "raw"}

\* int(str(file).split('_')[0][-1]): the last character before the first
\* underscore, read as a number.
FileDigit(f) == f.id % 10

\* n copies of d
Repeat(d, n) == [i \in 1..n |-> d]

RECURSIVE SortedFrom(_, _)
\* The digits d..9 of the files fs, each as often as it occurs, ascending.
SortedFrom(d, fs) ==
    IF d > 9 THEN << >>
    ELSE Repeat(d, Cardinality({f \in fs : FileDigit(f) = d})) \o SortedFrom(d + 1, fs)

\* raw_ids: sorted(... for file in glob('*'))
RawIds(fs) == SortedFrom(0, fs)

\* ids_order: list(range(1, raw_ids[-1] + 1)), for a non-empty raw_ids
IdsOrder(rawIds) == [i \in 1..rawIds[Len(rawIds)] |-> i]

\* seq[::2]
EveryOther(seq) == [i \in 1..((Len(seq) + 1) \div 2) |-> seq[2 * i - 1]]

\* What _validate_dataset does once the two lists are compared and found
\* consistent: it looks at the size of the first file of each list, and then
\* tests the truth of the iterator iterdir() returns, which is always true.
SizeCheck(firstMeta, firstRaw) ==
    IF firstMeta.size = 0 \/ firstRaw.size = 0
    THEN "InconsistentDatasetError"
    ELSE "none"

\* The outcomes of _validate_dataset: the exception raised, or "none".  The
\* order in which glob lists a directory is the file system's, so the first
\* file of each list is any file of it.
ValidateOutcomes(kind, fs) ==
    IF kind = "missing" THEN {"FileNotFoundError"}
    ELSE IF kind = "file" THEN {"NotADirectoryError"}
    ELSE IF fs = {} THEN {"IndexError"}
    ELSE IF \/ Cardinality(MetaFiles(fs)) # Cardinality(RawFiles(fs))
            \/ IdsOrder(RawIds(fs)) # EveryOther(RawIds(fs))
         THEN {"InconsistentDatasetError"}
    ELSE IF MetaFiles(fs) = {} THEN {"IndexError"}
    ELSE {SizeCheck(fm, fr) : fm \in MetaFiles(fs), fr \in RawFiles(fs)}

\* get_article_id_from_filepath: the number the file's name starts with
ArticleIdFromFilepath(f) == f.id

\* from_raw: the article read from a raw file
FromRaw(f) == [article_id |-> f.id, path |-> f]

\* self._storage[article_id] = article
Store(st, id, article) ==
    [i \in DOMAIN st \cup {id} |-> IF i = id THEN article ELSE st[i]]

\* The mutant of CtorOrder: the dataset is scanned before it is validated.
CtorOrderScanFirst == <<"scan", "validate">>

\* The calls __init__ makes after it set _storage to {}, in order.
CtorOrder == <<"validate", "scan">>

\* The position __init__ is at after its call number `step` returned.
AfterCall == IF step = Len(CtorOrder) THEN "done" ELSE "ctor"

InitCorpus ==
    /\ dirKind \in {"missing", "file", "dir"}
    /\ \E varied \in [VariedSlots -> {"absent", "empty", "full"}],
          pairs \in SUBSET PairIds :
          files = IF dirKind = "dir" THEN DirectoryOf(varied, pairs) ELSE {}
    /\ pc = "ctor"
    /\ step = 1
    /\ error = "none"
    /\ storage = NoArticles
    /\ toScan = {}
    /\ fromRawCalls = 0
    /\ sentence = [position |-> 0, tokens |-> << >>]
    /\ call = Idle
    /\ corpus = [order |-> << >>, text |-> << >>]
    /\ run = Idle

\* self._validate_dataset()
ValidateDataset ==
    /\ pc = "ctor"
    /\ CtorOrder[step] = "validate"
    /\ \E outcome \in ValidateOutcomes(dirKind, files) :
          IF outcome = "none"
          THEN /\ pc' = AfterCall
               /\ step' = step + 1
               /\ error' = error
          ELSE /\ pc' = "raised"
               /\ step' = step
               /\ error' = outcome
    /\ UNCHANGED <<dirKind, files, storage, toScan, fromRawCalls>>
    /\ UNCHANGED <<sentenceVars, pipelineVars>>

\* self._scan_dataset(): the glob that the loop iterates over
ScanBegin ==
    /\ pc = "ctor"
    /\ CtorOrder[step] = "scan"
    /\ pc' = "scan"
    /\ toScan' = RawFiles(files)
    /\ UNCHANGED <<dirKind, files, step, error, storage, fromRawCalls>>
    /\ UNCHANGED <<sentenceVars, pipelineVars>>

\* one iteration of the loop of _scan_dataset
ScanFile ==
    /\ pc = "scan"
    /\ \E f \in toScan :
          /\ storage' = Store(storage, ArticleIdFromFilepath(f), FromRaw(f))
          /\ toScan' = toScan \ {f}
    /\ fromRawCalls' = fromRawCalls + 1
    /\ UNCHANGED <<dirKind, files, pc, step, error>>
    /\ UNCHANGED <<sentenceVars, pipelineVars>>

\* the loop of _scan_dataset is over, and _scan_dataset returns
ScanEnd ==
    /\ pc = "scan"
    /\ toScan = {}
    /\ pc' = AfterCall
    /\ step' = step + 1
    /\ UNCHANGED <<dirKind, files, error, storage, toScan, fromRawCalls>>
    /\ UNCHANGED <<sentenceVars, pipelineVars>>

\* get_articles()
GetArticles == storage

NextCorpus == ValidateDataset \/ ScanBegin \/ ScanFile \/ ScanEnd

SpecCorpus == InitCorpus /\ [][NextCorpus]_vars

(***************************************************************************)
(* ConlluToken and ConlluSentence.  A text is a sequence of characters, a  *)
(* character its Unicode code point: 65 is A, 97 is a, 46 is the full      *)
(* stop, 171 is the left guillemet, 32 is the space.                       *)
(***************************************************************************)
\* The characters token texts are made of
Alphabet == {65, 97, 46, 171, 32}

\* string.punctuation
AsciiPunctuation == (33..47) \cup (58..64) \cup (91..96) \cup (123..126)

\* The characters of the string added to string.punctuation: the two
\* guillemets, the em dash and the percent sign
ExtraPunctuation == {171, 187, 8212, 37}

\* The characters str.maketrans('', '', ...) maps to None
Deleted == AsciiPunctuation \cup ExtraPunctuation

\* str.lower() on one character: the Latin and the Cyrillic capitals
LowerChar(c) ==
    IF c \in 65..90 THEN c + 32
    ELSE IF c \in 1040..1071 THEN c + 32
    ELSE IF c \in 1024..1039 THEN c + 80
    ELSE c

\* str.lower()
Lower(s) == [i \in 1..Len(s) |-> LowerChar(s[i])]

\* str.translate with a table that deletes the characters of `del`
Translate(s, del) == SelectSeq(s, LAMBDA c : c \notin del)

\* The mutant of GetCleaned: a deleted character leaves a space behind.
GetCleanedBlanking(text) ==
    Lower([i \in 1..Len(text) |-> IF text[i] \in Deleted THEN 32 ELSE text[i]])

\* ConlluToken.get_cleaned
GetCleaned(text) == Lower(Translate(text, Deleted))

RECURSIVE Join(_, _)
\* sep.join(parts)
Join(sep, parts) ==
    IF parts = << >> THEN << >>
    ELSE IF Len(parts) = 1 THEN parts[1]
    ELSE parts[1] \o sep \o Join(sep, Tail(parts))

\* The mutant of GetCleanedSentence: the tokens that clean to nothing are
\* joined with the others.
GetCleanedSentenceUnfiltered(tokens) ==
    Join(<<32>>, [i \in 1..Len(tokens) |-> GetCleaned(tokens[i])])

\* ConlluSentence.get_cleaned_sentence
GetCleanedSentence(tokens) ==
    Join(<<32>>, SelectSeq([i \in 1..Len(tokens) |-> GetCleaned(tokens[i])],
                           LAMBDA t : t # << >>))

RECURSIVE Split(_)
\* str.split(): the maximal runs of characters other than white space
Split(s) ==
    IF s = << >> THEN << >>
    ELSE IF s[1] = 32 THEN Split(Tail(s))
    ELSE LET stops == {i \in 1..Len(s) : s[i] = 32}
             n == IF stops = {} THEN Len(s) + 1
                  ELSE CHOOSE i \in stops : \A j \in stops : i <= j
         IN  <<SubSeq(s, 1, n - 1)>> \o Split(SubSeq(s, n, Len(s)))

\* What a method without a return statement returns
None == [kind |-> "None", val |-> << >>]

\* A returned string
Str(s) == [kind |-> "str", val |-> s]

\* MorphologicalTokenDTO.__init__: it stores none of its arguments
MorphologicalTokenDTO(lemma, pos, tags) == [class |-> "MorphologicalTokenDTO"]

\* The value the calls that take no annotation carry in its place
NoDTO == [class |-> "none"]

\* The annotations the model hands to set_morphological_parameters:
\* (lemma, pos, tags)
Annotations == {<<"_", "X", "_">>, <<"a", "NOUN", "Case=Nom|Number=Sing">>}

\* ConlluToken.set_morphological_parameters: a body of one docstring
SetMorphologicalParametersResult(text, dto) == None

\* ConlluToken.get_morphological_parameters: a body of one docstring
GetMorphologicalParametersResult(text) == None

\* ConlluToken.get_conllu_text: a body of one docstring
TokenConlluText(text, include) == None

\* ConlluSentence.get_conllu_text: a body of one docstring
SentenceConlluText(sent, include) == None

\* ConlluSentence.get_tokens: a body of one docstring
GetTokensResult(sent) == None

\* The record of a call: the method, the token it was called on (0 for the
\* sentence), its arguments and what it returned
Call(op, tok, include, dto, ret) ==
    [op |-> op, tok |-> tok, include |-> include, dto |-> dto, ret |-> ret]

\* The longest sentence, in characters of its tokens
MaxChars == 3

RECURSIVE Pieces(_, _, _)
\* The text s from position `from` on, cut after each position of `cuts`
Pieces(s, cuts, from) ==
    IF from > Len(s) THEN << >>
    ELSE LET rest == {c \in cuts : c >= from}
             to == IF rest = {} THEN Len(s)
                   ELSE CHOOSE c \in rest : \A d \in rest : c <= d
         IN  <<SubSeq(s, from, to)>> \o Pieces(s, cuts, to + 1)

\* ConlluSentence(position, text, tokens) over ConlluToken(text) objects:
\* every sequence of non-empty token texts of at most MaxChars characters
InitSentence ==
    /\ \E n \in 0..MaxChars :
          \E s \in [1..n -> Alphabet], cuts \in SUBSET (1..(n - 1)) :
             sentence = [position |-> 0, tokens |-> Pieces(s, cuts, 1)]
    /\ call = Idle
    /\ dirKind = "missing"
    /\ files = {}
    /\ pc = "idle"
    /\ step = 1
    /\ error = "none"
    /\ storage = NoArticles
    /\ toScan = {}
    /\ fromRawCalls = 0
    /\ corpus = [order |-> << >>, text |-> << >>]
    /\ run = Idle

Tokens == DOMAIN sentence.tokens

\* token.get_cleaned()
TokenGetCleaned ==
    /\ \E i \in Tokens :
          call' = Call("token.get_cleaned", i, FALSE, NoDTO,
                       Str(GetCleaned(sentence.tokens[i])))
    /\ UNCHANGED <<sentence, corpusVars, pipelineVars>>

\* token.set_morphological_parameters(MorphologicalTokenDTO(lemma, pos, tags))
TokenSetMorphologicalParameters ==
    /\ \E i \in Tokens, a \in Annotations :
          LET dto == MorphologicalTokenDTO(a[1], a[2], a[3])
          IN  call' = Call("token.set_morphological_parameters", i, FALSE, dto,
                           SetMorphologicalParametersResult(sentence.tokens[i], dto))
    /\ UNCHANGED <<sentence, corpusVars, pipelineVars>>

\* token.get_morphological_parameters()
TokenGetMorphologicalParameters ==
    /\ \E i \in Tokens :
          call' = Call("token.get_morphological_parameters", i, FALSE, NoDTO,
                       GetMorphologicalParametersResult(sentence.tokens[i]))
    /\ UNCHANGED <<sentence, corpusVars, pipelineVars>>

\* token.get_conllu_text(include_morphological_tags)
TokenGetConlluText ==
    /\ \E i \in Tokens, include \in BOOLEAN :
          call' = Call("token.get_conllu_text", i, include, NoDTO,
                       TokenConlluText(sentence.tokens[i], include))
    /\ UNCHANGED <<sentence, corpusVars, pipelineVars>>

\* sentence.get_cleaned_sentence()
SentenceGetCleanedSentence ==
    /\ call' = Call("sentence.get_cleaned_sentence", 0, FALSE, NoDTO,
                    Str(GetCleanedSentence(sentence.tokens)))
    /\ UNCHANGED <<sentence, corpusVars, pipelineVars>>

\* sentence.get_conllu_text(include_morphological_tags)
SentenceGetConlluText ==
    /\ \E include \in BOOLEAN :
          call' = Call("sentence.get_conllu_text", 0, include, NoDTO,
                       SentenceConlluText(sentence, include))
    /\ UNCHANGED <<sentence, corpusVars, pipelineVars>>

\* sentence.get_tokens()
SentenceGetTokens ==
    /\ call' = Call("sentence.get_tokens", 0, FALSE, NoDTO, GetTokensResult(sentence))
    /\ UNCHANGED <<sentence, corpusVars, pipelineVars>>

NextSentence ==
    \/ TokenGetCleaned
    \/ TokenSetMorphologicalParameters
    \/ TokenGetMorphologicalParameters
    \/ TokenGetConlluText
    \/ SentenceGetCleanedSentence
    \/ SentenceGetConlluText
    \/ SentenceGetTokens

SpecSentence == InitSentence /\ [][NextSentence]_vars

(***************************************************************************)
(* The pipelines.  An article of the corpus has a text and a slot for its  *)
(* sentences.  The texts are made of the letter a, the space and the full  *)
(* stop, and each holds a letter.                                          *)
(***************************************************************************)
\* The most articles a corpus holds
MaxArticles == 2
\* The longest article text, in characters
MaxTextLen == 4

TextAlphabet == {97, 32, 46}

\* The article texts of the model
Texts ==
    {t \in UNION {[1..n -> TextAlphabet] : n \in 1..MaxTextLen} :
        \E i \in DOMAIN t : t[i] = 97}

\* str.strip() of the white space at both ends
RECURSIVE Strip(_)
Strip(s) ==
    IF s = << >> THEN << >>
    ELSE IF s[1] = 32 THEN Strip(Tail(s))
    ELSE IF s[Len(s)] = 32 THEN Strip(SubSeq(s, 1, Len(s) - 1))
    ELSE s

RECURSIVE RawSpans(_)
\* The text cut after each full stop
RawSpans(text) ==
    IF text = << >> THEN << >>
    ELSE LET stops == {i \in 1..Len(text) : text[i] = 46}
             n == IF stops = {} THEN Len(text)
                  ELSE CHOOSE i \in stops : \A j \in stops : i <= j
         IN  <<SubSeq(text, 1, n)>> \o RawSpans(SubSeq(text, n + 1, Len(text)))

\* split_by_sentence: the sentence spans of a text, each ending with its
\* full stop, stripped, the empty ones dropped
SplitBySentence(text) ==
    SelectSeq([k \in 1..Len(RawSpans(text)) |-> Strip(RawSpans(text)[k])],
              LAMBDA sp : sp # << >>)

\* ConlluToken(text)
ConlluToken(text) == [text |-> text]

\* ConlluSentence(position, text, tokens)
ConlluSentence(position, text, tokens) ==
    [position |-> position, text |-> text, tokens |-> tokens]

\* [ConlluToken(token) for token in sentence.split()]
TokensOf(span) == [j \in 1..Len(Split(span)) |-> ConlluToken(Split(span)[j])]

\* A returned list
List(items) == [kind |-> "list", val |-> items]

\* The slot of an article no sentences were attached to
Unset == [kind |-> "unset", val |-> << >>]

\* MorphologicalAnalysisPipeline._process: the first time round the loop it
\* makes a list of the one sentence at hand and returns it; with no span to
\* loop over it falls off its end.
Process(text) ==
    LET spans == SplitBySentence(text)
    IN  IF spans = << >> THEN None
        ELSE List(<<ConlluSentence(0, spans[1], TokensOf(spans[1]))>>)

\* to_cleaned(article): it writes the article's cleaned text, or raises
ToCleanedOutcomes == {"written", "raises"}

\* The orders a dictionary of n articles can have been filled in
Orders(n) ==
    {o \in [1..n -> 1..n] : \A i, j \in 1..n : o[i] = o[j] => i = j}

\* The article the loop of run() is at
Current == corpus.order[run.next]

InitPipeline ==
    /\ \E n \in 1..MaxArticles :
          \E o \in Orders(n), t \in [1..n -> Texts] :
             /\ corpus = [order |-> o, text |-> t]
             /\ \E p \in {"basic", "advanced"} :
                   run = [op |-> "run", pipeline |-> p, status |-> "running",
                          next |-> 1, slot |-> [a \in 1..n |-> Unset],
                          written |-> {}, failed |-> 0]
    /\ sentence = [position |-> 0, tokens |-> << >>]
    /\ call = Idle
    /\ dirKind = "missing"
    /\ files = {}
    /\ pc = "idle"
    /\ step = 1
    /\ error = "none"
    /\ storage = NoArticles
    /\ toScan = {}
    /\ fromRawCalls = 0

\* MorphologicalAnalysisPipeline.run: once round its loop.  An exception of
\* to_cleaned leaves run().
BasicRunArticle ==
    /\ run.op = "run" /\ run.pipeline = "basic" /\ run.status = "running"
    /\ run.next <= Len(corpus.order)
    /\ \E outcome \in ToCleanedOutcomes :
          LET attached == [run.slot EXCEPT ![Current] = Process(corpus.text[Current])]
          IN  IF outcome = "written"
              THEN run' = [run EXCEPT !.slot = attached,
                                      !.written = @ \cup {Current},
                                      !.next = @ + 1]
              ELSE run' = [run EXCEPT !.slot = attached,
                                      !.status = "raised",
                                      !.failed = Current]
    /\ UNCHANGED <<corpus, corpusVars, sentenceVars>>

\* MorphologicalAnalysisPipeline.run: its loop is over
BasicRunEnd ==
    /\ run.op = "run" /\ run.pipeline = "basic" /\ run.status = "running"
    /\ run.next > Len(corpus.order)
    /\ run' = [run EXCEPT !.status = "done"]
    /\ UNCHANGED <<corpus, corpusVars, sentenceVars>>

\* AdvancedMorphologicalAnalysisPipeline.run: a body of one docstring
AdvancedRun ==
    /\ run.op = "run" /\ run.pipeline = "advanced" /\ run.status = "running"
    /\ run' = [run EXCEPT !.status = "done"]
    /\ UNCHANGED <<corpus, corpusVars, sentenceVars>>

NextPipeline == BasicRunArticle \/ BasicRunEnd \/ AdvancedRun

SpecPipeline == InitPipeline /\ [][NextPipeline]_vars

(***************************************************************************)
(* Properties of CorpusManager                                             *)
(***************************************************************************)
\* __init__ returned or raised
Constructed == pc \in {"done", "raised"}

\* The files <id>_raw.txt and <id>_meta.json for each id in 1..n, none empty
CompleteCorpus(n) == {File(i, k, 1) : i \in 1..n, k \in Kinds}

\* The ids the files of the directory carry
IdsPresent == {f.id : f \in files}

\* Every id present comes as a raw file and a metadata file
InPairs == \A f \in files : \E g \in files : g.id = f.id /\ g.kind # f.kind

\* An id strictly between 1 and the largest id present is missing
HasGap == \E i \in 2..MaxId : i \notin IdsPresent /\ \E j \in IdsPresent : j > i

\* C1: for every N >= 1, over a directory that holds exactly the non-empty
\* files <id>_raw.txt and <id>_meta.json for each id in 1..N, the
\* construction of CorpusManager raises no error and get_articles() then
\* holds exactly N entries, one for each id in 1..N.
C1_CompleteCorpusLoads ==
    \A n \in 1..MaxId :
        (dirKind = "dir" /\ files = CompleteCorpus(n) /\ Constructed)
            => (error = "none" /\ DOMAIN GetArticles = 1..n)

\* C2: over a directory of raw/metadata pairs whose ids miss an id strictly
\* between 1 and the largest id present, the construction fails with
\* InconsistentDatasetError.
C2_GapIsInconsistent ==
    (dirKind = "dir" /\ InPairs /\ HasGap /\ Constructed)
        => error = "InconsistentDatasetError"

\* C3: over an existing directory with no entries, the construction fails
\* with EmptyDirectoryError, and with no other error.
C3_EmptyDirectoryError ==
    (dirKind = "dir" /\ files = {} /\ Constructed)
        => error = "EmptyDirectoryError"

\* C4: when any metadata or raw file of the directory is zero bytes long,
\* whichever it is and wherever the listing puts it, the construction fails
\* with InconsistentDatasetError.
C4_EmptyFileIsInconsistent ==
    (dirKind = "dir" /\ (\E f \in files : f.size = 0) /\ Constructed)
        => error = "InconsistentDatasetError"

\* The errors of dataset validation
ValidationErrors ==
    {"FileNotFoundError", "NotADirectoryError", "EmptyDirectoryError",
     "InconsistentDatasetError"}

\* C9: validation precedes loading: whenever the construction has failed with
\* a dataset-validation error, from_raw was never called and _storage is
\* empty.
C9_ValidationPrecedesLoading ==
    error \in ValidationErrors => (DOMAIN storage = {} /\ fromRawCalls = 0)

\* C9's case: a directory with raw files to load was rejected
C9_Witness ==
    /\ pc = "raised"
    /\ error = "InconsistentDatasetError"
    /\ RawFiles(files) # {}

(***************************************************************************)
(* Properties of ConlluToken and ConlluSentence                            *)
(***************************************************************************)
\* No token text of the sentence holds a space
SpaceFree(tokens) ==
    \A i \in DOMAIN tokens : \A j \in DOMAIN tokens[i] : tokens[i][j] # 32

\* The cleaned forms of the tokens, those that are empty left out
KeptCleaned(tokens) ==
    SelectSeq([i \in 1..Len(tokens) |-> GetCleaned(tokens[i])], LAMBDA t : t # << >>)

\* r is the cleaned forms that are not empty, in token order, one space
\* between two of them, and r has no two spaces in a row and no space at
\* either end
CleanedSentenceRight(tokens, r) ==
    /\ r.kind = "str"
    /\ Split(r.val) = KeptCleaned(tokens)
    /\ \A i \in 1..(Len(r.val) - 1) : ~(r.val[i] = 32 /\ r.val[i + 1] = 32)
    /\ r.val # << >> => (r.val[1] # 32 /\ r.val[Len(r.val)] # 32)

\* C6 as stated: for every sentence and every list of tokens it holds,
\* get_cleaned_sentence() returns the non-empty cleaned forms of the tokens in
\* token order joined by single spaces, with no two consecutive spaces and no
\* leading or trailing space.
C6_CleanedSentenceAnyTokens ==
    call.op = "sentence.get_cleaned_sentence"
        => CleanedSentenceRight(sentence.tokens, call.ret)

\* C6 as amended: the same, for every sentence none of whose token texts
\* holds a space.
C6_CleanedSentenceSpaceFree ==
    (call.op = "sentence.get_cleaned_sentence" /\ SpaceFree(sentence.tokens))
        => CleanedSentenceRight(sentence.tokens, call.ret)

\* C6's case: a sentence of space-free tokens, one of which cleans to the
\* empty string while two others do not, was cleaned
C6_Witness ==
    /\ call.op = "sentence.get_cleaned_sentence"
    /\ SpaceFree(sentence.tokens)
    /\ \E i \in DOMAIN sentence.tokens : GetCleaned(sentence.tokens[i]) = << >>
    /\ Len(KeptCleaned(sentence.tokens)) >= 2

\* How often the character c occurs in s
Count(s, c) == Cardinality({i \in DOMAIN s : s[i] = c})

\* r is what cleaning the text t must return
CleanedRight(t, r) ==
    /\ r.kind = "str"
    /\ GetCleaned(r.val) = r.val
    /\ \A i \in DOMAIN r.val :
          /\ r.val[i] \notin (33..47) \cup (58..64) \cup (91..96) \cup (123..126)
          /\ r.val[i] \notin {171, 187, 8212, 37}
    /\ Len(r.val) = Cardinality({i \in DOMAIN t :
                        t[i] \notin (33..47) \cup (58..64) \cup (91..96) \cup (123..126)
                                    \cup {171, 187, 8212, 37}})
    /\ Count(r.val, 32) = Count(t, 32)

\* C7: get_cleaned() is idempotent (cleaning its result returns the result),
\* its result holds no ASCII punctuation and none of the guillemets, the em
\* dash and the percent sign, the removed characters are deleted and not
\* replaced by a space, and the call leaves the token's text as it was.
C7_GetCleanedIdempotent ==
    [][call'.op = "token.get_cleaned"
          => /\ sentence' = sentence
             /\ CleanedRight(sentence'.tokens[call'.tok], call'.ret)]_vars

\* C7's case: a token with a capital and a punctuation mark was cleaned
C7_Witness ==
    /\ call.op = "token.get_cleaned"
    /\ \E j \in DOMAIN sentence.tokens[call.tok] :
          sentence.tokens[call.tok][j] \in 65..90
    /\ \E j \in DOMAIN sentence.tokens[call.tok] :
          sentence.tokens[call.tok][j] \in {46, 171}
    /\ call.ret.val # << >>

\* r is a token line of ten columns whose UPOS and FEATS columns are `_`
UntaggedTokenLine(r) == Len(r) = 10 /\ r[4] = "_" /\ r[6] = "_"

\* C8: for every token and every annotation stored on it (none included),
\* get_conllu_text(False) yields a token line whose UPOS and FEATS columns
\* are both `_`, from the token and in every token line of the sentence's
\* get_conllu_text(False).
C8_NoTagsWhenExcluded ==
    /\ (call.op = "token.get_conllu_text" /\ ~call.include)
          => (call.ret.kind = "str" /\ UntaggedTokenLine(call.ret.val))
    /\ (call.op = "sentence.get_conllu_text" /\ ~call.include)
          => /\ call.ret.kind = "str"
             /\ Len(call.ret.val) = 2 + Len(sentence.tokens)
             /\ \A k \in 3..Len(call.ret.val) : UntaggedTokenLine(call.ret.val[k])

(***************************************************************************)
(* Properties of the pipelines                                             *)
(***************************************************************************)
\* The articles of the corpus
Articles == DOMAIN corpus.text

\* One sentence for each span of the text, in order, the k-th (from 0) with
\* position k and the span's tokens
ExpectedSentences(text) ==
    [k \in 1..Len(SplitBySentence(text)) |->
        [position |-> k - 1,
         text |-> SplitBySentence(text)[k],
         tokens |-> [j \in 1..Len(Split(SplitBySentence(text)[k])) |->
                        [text |-> Split(SplitBySentence(text)[k])[j]]]]]

\* C5: after the basic pipeline's run(), the sentence list attached to every
\* article holds exactly one ConlluSentence for each span that
\* split_by_sentence(article.text) returns, in the same order, the k-th (from
\* 0) with position k and the span's white-space-delimited tokens.
C5_OneSentencePerSpan ==
    (run.op = "run" /\ run.pipeline = "basic" /\ run.status = "done")
        => \A a \in Articles :
              /\ run.slot[a].kind = "list"
              /\ run.slot[a].val = ExpectedSentences(corpus.text[a])

\* C10: a failure while one article is processed stays with that article:
\* every other article, those after it in the iteration included, has its
\* sentences attached and its output written.
C10_FailureIsIsolated ==
    (run.op = "run" /\ run.status = "raised")
        => \A a \in Articles \ {run.failed} :
              a \in run.written /\ run.slot[a].kind # "unset"

====
